---------------------------- MODULE Spec2Model ----------------------------
(***************************************************************************)
(* Model of src/main.rs: a one-shot pipeline that checks that the model    *)
(* and audio files exist, loads the model, decodes a mono 16 kHz WAV into  *)
(* normalised samples, runs one inference and writes the segments and the  *)
(* processing time to a report file.  Every failure is a panic.            *)
(*                                                                         *)
(* The filesystem (model file, audio file, report file) and the engine's   *)
(* transcript for this audio outlive a process; Restart starts the next    *)
(* process on the same filesystem.                                         *)
(***************************************************************************)
EXTENDS Integers, Sequences, FiniteSets, TLC

(***************************************************************************)
(* Bounds of the model.                                                    *)
(***************************************************************************)
MaxSamples == 2

MaxSegs == 2

MaxRuns == 2

(***************************************************************************)
(* Program constants.                                                      *)
(***************************************************************************)
MonoChannels == 1

SampleRate == 16000

PcmScale == 32768

TicksPerSecond == 100

Precision == 2

(***************************************************************************)
(* Input domains.                                                          *)
(***************************************************************************)
\* A path with no file, and a file with its content.
NoFile == [exists |-> FALSE, data |-> <<>>]

File(content) == [exists |-> TRUE, data |-> content]

\* The items of the WAV sample iterator: Ok(value) or Err.
Ok(v) == [ok |-> TRUE, v |-> v]

DecodeErr == [ok |-> FALSE, v |-> 0]

\* The transcript of this audio, before and after the engine computed it.
Unknown == [known |-> FALSE, segs |-> <<>>]

Known(t) == [known |-> TRUE, segs |-> t]

NL == "\n"

\* i16 sample values a WAV may hold: the two extremes.
SampleSet == {-32768, 32767}

SampleItems == {Ok(v) : v \in SampleSet} \cup {DecodeErr}

SampleSeqs == UNION {[1..n -> SampleItems] : n \in 0..MaxSamples}

ChannelSet == {1, 2}

RateSet == {16000, 44100}

WavFiles == {File(w) : w \in [channels : ChannelSet, rate : RateSet, samples : SampleSeqs]}

\* Segments as the engine accessors return them: i64 centisecond ticks
\* (signed, not ordered by the type) and a text, a sequence of characters.
\* One segment with surrounding whitespace, one with ticks out of order, a
\* negative tick and an embedded line break.
SegmentSet ==
    { [t0 |-> 0, t1 |-> 1234, text |-> <<" ", "h", "i", NL>>],
      [t0 |-> 1234, t1 |-> -1, text |-> <<"a", NL, "b">>] }

SegSeqs == UNION {[1..n -> SegmentSet] : n \in 0..MaxSegs}

\* Elapsed wall-clock time in milliseconds (no value on a rounding tie).
ElapsedMsSet == {4, 3214}

\* A report file left behind by something earlier.
StaleFile == File(<<"stale", NL>>)

(***************************************************************************)
(* Numbers.                                                                *)
(***************************************************************************)
Abs(n) == IF n < 0 THEN -n ELSE n

RECURSIVE Pow(_, _)
Pow(b, k) == IF k = 0 THEN 1 ELSE b * Pow(b, k - 1)

RECURSIVE Log2(_)
Log2(n) == IF n <= 1 THEN 0 ELSE 1 + Log2(n \div 2)

\* A binary float as m * 2^e with m odd (or zero): `s as f32` is exact for
\* every i16 because |s| < 2^24.
RECURSIVE F32FromInt(_)
F32FromInt(n) ==
    IF n = 0 THEN [m |-> 0, e |-> 0]
    ELSE IF n % 2 = 0
         THEN LET h == F32FromInt(n \div 2) IN [m |-> h.m, e |-> h.e + 1]
         ELSE [m |-> n, e |-> 0]

\* Division of a float by a power of two lowers the exponent and is exact.
F32DivPow2(x, d) == IF x.m = 0 THEN x ELSE [m |-> x.m, e |-> x.e - Log2(d)]

\* Mutant: the sample is converted and not scaled.
NormalizeUnscaled(s) == F32FromInt(s)

\* s.unwrap() as f32 / 32768.0
Normalize(s) == F32DivPow2(F32FromInt(s), PcmScale)

\* Mutant: the tick is taken for a millisecond.
ToSecondsMilli(t) == [num |-> t, den |-> 1000]

\* t as f64 / 100.0, as a fraction.
ToSeconds(t) == [num |-> t, den |-> TicksPerSecond]

\* Duration::as_secs_f32 of a duration in milliseconds, as a fraction.
SecsOfMs(ms) == [num |-> ms, den |-> 1000]

\* Round n / d (n >= 0, d > 0) to the nearest integer, ties to even.
RoundDiv(n, d) ==
    LET q == n \div d
        r == n % d
    IN  IF 2 * r > d THEN q + 1
        ELSE IF 2 * r < d THEN q
        ELSE IF q % 2 = 0 THEN q ELSE q + 1

Digit(k) == <<"0", "1", "2", "3", "4", "5", "6", "7", "8", "9">>[k + 1]

RECURSIVE Digits(_)
Digits(n) == IF n < 10 THEN <<Digit(n)>> ELSE Append(Digits(n \div 10), Digit(n % 10))

RECURSIVE FracDigits(_, _)
FracDigits(n, width) ==
    IF width = 0 THEN <<>> ELSE Append(FracDigits(n \div 10, width - 1), Digit(n % 10))

\* format!("{:.2}", x): sign, integer part, point, exactly Precision digits.
FormatFixed(x) ==
    LET unit  == Pow(10, Precision)
        scaled == RoundDiv(Abs(x.num) * unit, x.den)
    IN  (IF x.num < 0 THEN <<"-">> ELSE <<>>)
        \o Digits(scaled \div unit) \o <<".">> \o FracDigits(scaled % unit, Precision)

(***************************************************************************)
(* Text.                                                                   *)
(***************************************************************************)
IsSpace(c) == c \in {" ", NL, "\t", "\r"}

RECURSIVE TrimStart(_)
TrimStart(s) == IF s # <<>> /\ IsSpace(Head(s)) THEN TrimStart(Tail(s)) ELSE s

RECURSIVE TrimEnd(_)
TrimEnd(s) ==
    IF s # <<>> /\ IsSpace(s[Len(s)]) THEN TrimEnd(SubSeq(s, 1, Len(s) - 1)) ELSE s

\* str::trim
Trim(s) == TrimEnd(TrimStart(s))

(***************************************************************************)
(* What save_results writes.  A file is a sequence of characters and of    *)
(* literals of the format strings; NL ends a line.  A writeln! reaches the *)
(* file piece by piece: the literals of its format string and its          *)
(* formatted arguments, the line feed last.                                *)
(***************************************************************************)
RECURSIVE Flatten(_)
Flatten(pieces) == IF pieces = <<>> THEN <<>> ELSE Head(pieces) \o Flatten(Tail(pieces))

HeaderLine == << <<"Transcription results:", NL>> >>

SegmentLine(s, e, t) ==
    << <<"[">>, FormatFixed(s), <<"s-">>, FormatFixed(e), <<"s] ">>, Trim(t), <<NL>> >>

TimeLine(elapsed) ==
    << <<NL, "Processing time: ">>, FormatFixed(elapsed), <<" sec", NL>> >>


(***************************************************************************)
(* State.                                                                  *)
(*   files:   modelExists, audio, outFile; transcript is the engine's       *)
(*            output for this model and audio                              *)
(*   process: pc, exit, stdout and the locals of main, load_audio and      *)
(*            save_results                                                 *)
(*   history: run, log, written, startFile, prevExit                       *)
(***************************************************************************)
VARIABLES modelExists, audio, outFile, transcript,
          pc, exit, audio_data, segs, num_segments, i, text, start, end,
          elapsedMs, stdout, run, log, written, startFile, prevExit

world == <<modelExists, audio, transcript>>

locals == <<audio_data, segs, num_segments, i, text, start, end, elapsedMs>>

history == <<run, startFile, prevExit>>

vars == <<modelExists, audio, outFile, transcript,
          pc, exit, audio_data, segs, num_segments, i, text, start, end,
          elapsedMs, stdout, run, log, written, startFile, prevExit>>

Init ==
    /\ modelExists \in BOOLEAN
    /\ audio \in {NoFile} \cup WavFiles
    /\ outFile \in {NoFile, StaleFile}
    /\ transcript = Unknown
    /\ pc = "check_model"
    /\ exit = "running"
    /\ audio_data = <<>>
    /\ segs = <<>>
    /\ num_segments = 0
    /\ i = 0
    /\ text = <<>>
    /\ start = ToSeconds(0)
    /\ end = ToSeconds(0)
    /\ elapsedMs = 0
    /\ stdout = <<>>
    /\ run = 1
    /\ log = <<>>
    /\ written = <<>>
    /\ startFile = outFile
    /\ prevExit = "none"

(***************************************************************************)
(* Control flow of main and of the functions it calls.                     *)
(***************************************************************************)
\* The statements of main, with those of load_audio and of save_results up
\* to its loop, in program order.
MainOrder ==
    <<"check_model", "check_audio", "load_model", "open_wav", "check_format",
      "decode", "create_state", "full", "create_file", "write_header",
      "n_segments">>

\* The statements of the body of the loop of save_results.
BodyOrder == <<"seg_text", "seg_t0", "seg_t1", "seg_write">>

After(order, step) == order[(CHOOSE k \in 1..Len(order) : order[k] = step) + 1]

StepAfter(main, step) ==
    IF step = "write_time" THEN "done"
    ELSE IF step \in {BodyOrder[k] : k \in 1..Len(BodyOrder)} THEN After(BodyOrder, step)
    ELSE After(main, step)

\* Mutant: the model is never loaded and the audio never read.
SuccSkipLoad(step) ==
    StepAfter(<<"check_model", "check_audio", "create_state", "full",
                "create_file", "write_header", "n_segments">>, step)

\* Mutant: the report file is created before the inference.
SuccEarlyCreate(step) ==
    StepAfter(<<"check_model", "check_audio", "load_model", "open_wav",
                "check_format", "decode", "create_file", "create_state", "full",
                "write_header", "n_segments">>, step)

\* The statement that follows each step when the step succeeds.
Succ(step) == StepAfter(MainOrder, step)

\* Mutant: the loop stops one segment early.
LoopHeadShort(k, n) == IF k + 1 < n THEN "seg_text" ELSE "write_time"

\* for i in 0..num_segments
LoopHead(k, n) == IF k < n THEN "seg_text" ELSE "write_time"

\* Mutant: a failure is reported and the program carries on.
OnResultSwallow(ok, next) ==
    /\ pc' = next
    /\ exit' = IF next = "done" THEN "zero" ELSE exit

\* panic!, expect and unwrap: a failure ends the process with a non-zero
\* status on the spot; main returning ends it with status 0.
OnResult(ok, next) ==
    IF ok
    THEN /\ pc' = next
         /\ exit' = IF next = "done" THEN "zero" ELSE exit
    ELSE /\ pc' = "aborted"
         /\ exit' = "nonzero"

\* History: the steps this process executed, each with its outcome.
Record(op, ok) == log' = Append(log, [op |-> op, ok |-> ok])

\* println!
Println(msg) == stdout' = Append(stdout, msg)

\* Mutant: only a file wrong in both respects is refused.
FormatOkBoth(spec) == ~(spec.channels # MonoChannels /\ spec.rate # SampleRate)

\* if spec.channels != 1 || spec.sample_rate != 16000 { panic!(..) }
FormatOk(spec) == ~(spec.channels # MonoChannels \/ spec.rate # SampleRate)

\* Mutant: an existing file is opened for appending.
CreatedAppend(file) == IF file.exists THEN file ELSE File(<<>>)

\* File::create: the file exists and is empty afterwards.
Created(file) == File(<<>>)

\* Mutant: a failed write removes the file.
PartialRemoved(file, line, k) == NoFile

\* writeln! on an unbuffered File that fails after `k` pieces of the line
\* have reached the file: what was written stays.
Partial(file, line, k) == File(file.data \o Flatten(SubSeq(line, 1, k)))

(***************************************************************************)
(* main, phase 1: check files.                                             *)
(***************************************************************************)
\* Mutant: the model file is not checked.
CheckModelUnchecked ==
    /\ pc = "check_model"
    /\ Record("exists_model", TRUE)
    /\ OnResult(TRUE, Succ("check_model"))
    /\ UNCHANGED <<world, outFile, locals, written, stdout, history>>

CheckModel ==
    /\ pc = "check_model"
    /\ Record("exists_model", modelExists)
    /\ OnResult(modelExists, Succ("check_model"))
    /\ UNCHANGED <<world, outFile, locals, written, stdout, history>>

CheckAudio ==
    /\ pc = "check_audio"
    /\ Record("exists_audio", audio.exists)
    /\ OnResult(audio.exists, Succ("check_audio"))
    /\ UNCHANGED <<world, outFile, locals, written, stdout, history>>

(***************************************************************************)
(* main, phase 2: load the model, load and check the audio.                *)
(***************************************************************************)
\* println!("[1/4] ..") and WhisperContext::new_with_params(..).expect(..)
LoadModel ==
    /\ pc = "load_model"
    /\ Println("[1/4] Loading model...")
    /\ \E ok \in (IF modelExists THEN BOOLEAN ELSE {FALSE}) :
          /\ Record("load_model", ok)
          /\ OnResult(ok, Succ("load_model"))
    /\ UNCHANGED <<world, outFile, locals, written, history>>

\* println!("[2/4] ..") and, in load_audio, WavReader::open(path).expect(..)
OpenWav ==
    /\ pc = "open_wav"
    /\ Println("[2/4] Analyzing audio...")
    /\ \E ok \in (IF audio.exists THEN BOOLEAN ELSE {FALSE}) :
          /\ Record("open_wav", ok)
          /\ OnResult(ok, Succ("open_wav"))
    /\ UNCHANGED <<world, outFile, locals, written, history>>

CheckFormat ==
    /\ pc = "check_format"
    /\ Record("check_format", FormatOk(audio.data))
    /\ OnResult(FormatOk(audio.data), Succ("check_format"))
    /\ UNCHANGED <<world, outFile, locals, written, stdout, history>>

\* One turn of the sample iterator: the next sample, unwrapped and scaled.
DecodeSample ==
    /\ pc = "decode"
    /\ Len(audio_data) < Len(audio.data.samples)
    /\ LET s == audio.data.samples[Len(audio_data) + 1] IN
          /\ Record("decode", s.ok)
          /\ OnResult(s.ok, "decode")
          /\ audio_data' = IF s.ok
                           THEN Append(audio_data, Normalize(s.v))
                           ELSE audio_data
    /\ UNCHANGED <<world, outFile, segs, num_segments, i, text, start, end,
                   elapsedMs, written, stdout, history>>

\* The iterator is exhausted: collect() returns the buffer.
Collect ==
    /\ pc = "decode"
    /\ Len(audio_data) = Len(audio.data.samples)
    /\ Record("collect", TRUE)
    /\ OnResult(TRUE, Succ("decode"))
    /\ UNCHANGED <<world, outFile, locals, written, stdout, history>>

(***************************************************************************)
(* main, phase 3: inference.                                               *)
(***************************************************************************)
\* println!("[3/4] .."), Instant::now() and ctx.create_state().expect(..)
CreateState ==
    /\ pc = "create_state"
    /\ Println("[3/4] Transcribing...")
    /\ \E ok \in BOOLEAN :
          /\ Record("create_state", ok)
          /\ OnResult(ok, Succ("create_state"))
    /\ UNCHANGED <<world, outFile, locals, written, history>>

\* state.full(params, &audio_data): the engine is a function of the model
\* and the samples; its value for this audio is fixed by its first success.
Full ==
    /\ pc = "full"
    /\ \E ok \in BOOLEAN :
          /\ Record("full", ok)
          /\ OnResult(ok, Succ("full"))
          /\ IF ok
             THEN \E t \in (IF transcript.known THEN {transcript.segs} ELSE SegSeqs) :
                     /\ transcript' = Known(t)
                     /\ segs' = t
             ELSE UNCHANGED <<transcript, segs>>
    /\ UNCHANGED <<modelExists, audio, outFile, audio_data, num_segments, i,
                   text, start, end, elapsedMs, written, stdout, history>>

(***************************************************************************)
(* save_results.                                                           *)
(***************************************************************************)
\* println!("[4/4] ..") and, in save_results, File::create(path).expect(..)
CreateFile ==
    /\ pc = "create_file"
    /\ Println("[4/4] Saving...")
    /\ \E ok \in BOOLEAN :
          /\ Record("create_file", ok)
          /\ OnResult(ok, Succ("create_file"))
          /\ outFile' = IF ok THEN Created(outFile) ELSE outFile
    /\ UNCHANGED <<world, locals, written, history>>

\* writeln!(file, ..).unwrap() of `line`: all of it, or a failure after k
\* pieces.
WriteLn(op, line, next) ==
    \/ /\ Record(op, TRUE)
       /\ OnResult(TRUE, next)
       /\ outFile' = File(outFile.data \o Flatten(line))
    \/ \E k \in 0..(Len(line) - 1) :
          /\ Record(op, FALSE)
          /\ OnResult(FALSE, next)
          /\ outFile' = Partial(outFile, line, k)

WriteHeader ==
    /\ pc = "write_header"
    /\ WriteLn("write_header", HeaderLine, Succ("write_header"))
    /\ UNCHANGED <<world, locals, written, stdout, history>>

NSegments ==
    /\ pc = "n_segments"
    /\ \E ok \in BOOLEAN :
          /\ Record("n_segments", ok)
          /\ OnResult(ok, LoopHead(0, Len(segs)))
          /\ num_segments' = IF ok THEN Len(segs) ELSE num_segments
    /\ i' = 0
    /\ UNCHANGED <<world, outFile, audio_data, segs, text, start, end,
                   elapsedMs, written, stdout, history>>

SegText ==
    /\ pc = "seg_text"
    /\ \E ok \in BOOLEAN :
          /\ Record("seg_text", ok)
          /\ OnResult(ok, Succ("seg_text"))
          /\ text' = IF ok THEN segs[i + 1].text ELSE text
    /\ UNCHANGED <<world, outFile, audio_data, segs, num_segments, i, start,
                   end, elapsedMs, written, stdout, history>>

SegT0 ==
    /\ pc = "seg_t0"
    /\ \E ok \in BOOLEAN :
          /\ Record("seg_t0", ok)
          /\ OnResult(ok, Succ("seg_t0"))
          /\ start' = IF ok THEN ToSeconds(segs[i + 1].t0) ELSE start
    /\ UNCHANGED <<world, outFile, audio_data, segs, num_segments, i, text,
                   end, elapsedMs, written, stdout, history>>

SegT1 ==
    /\ pc = "seg_t1"
    /\ \E ok \in BOOLEAN :
          /\ Record("seg_t1", ok)
          /\ OnResult(ok, Succ("seg_t1"))
          /\ end' = IF ok THEN ToSeconds(segs[i + 1].t1) ELSE end
    /\ UNCHANGED <<world, outFile, audio_data, segs, num_segments, i, text,
                   start, elapsedMs, written, stdout, history>>

SegWrite ==
    /\ pc = "seg_write"
    /\ WriteLn("seg_write", SegmentLine(start, end, text), LoopHead(i + 1, num_segments))
    /\ i' = IF pc' = "aborted" THEN i ELSE i + 1
    /\ written' = IF pc' = "aborted"
                  THEN written
                  ELSE Append(written, [index |-> i,
                                        start |-> FormatFixed(start),
                                        end |-> FormatFixed(end)])
    /\ UNCHANGED <<world, audio_data, segs, num_segments, text, start, end,
                   elapsedMs, stdout, history>>

\* The processing-time line, then main prints "Done!" and returns.
WriteTime ==
    /\ pc = "write_time"
    /\ \E ms \in ElapsedMsSet :
          /\ elapsedMs' = ms
          /\ WriteLn("write_time", TimeLine(SecsOfMs(ms)), Succ("write_time"))
    /\ stdout' = IF pc' = "done"
                 THEN Append(stdout, "Done! Results saved to transcription_en.txt")
                 ELSE stdout
    /\ UNCHANGED <<world, audio_data, segs, num_segments, i, text, start, end,
                   written, history>>

(***************************************************************************)
(* The program is started again on the same filesystem.                    *)
(***************************************************************************)
Restart ==
    /\ pc \in {"done", "aborted"}
    /\ run < MaxRuns
    /\ run' = run + 1
    /\ prevExit' = exit
    /\ startFile' = outFile
    /\ pc' = "check_model"
    /\ exit' = "running"
    /\ audio_data' = <<>>
    /\ segs' = <<>>
    /\ num_segments' = 0
    /\ i' = 0
    /\ text' = <<>>
    /\ start' = ToSeconds(0)
    /\ end' = ToSeconds(0)
    /\ elapsedMs' = 0
    /\ stdout' = <<>>
    /\ log' = <<>>
    /\ written' = <<>>
    /\ UNCHANGED <<world, outFile>>

Next ==
    \/ CheckModel
    \/ CheckAudio
    \/ LoadModel
    \/ OpenWav
    \/ CheckFormat
    \/ DecodeSample
    \/ Collect
    \/ CreateState
    \/ Full
    \/ CreateFile
    \/ WriteHeader
    \/ NSegments
    \/ SegText
    \/ SegT0
    \/ SegT1
    \/ SegWrite
    \/ WriteTime
    \/ Restart

Spec == Init /\ [][Next]_vars

(***************************************************************************)
(* Vocabulary of the properties.                                           *)
(***************************************************************************)
\* The phase of main a step belongs to: 1 check, 2 load, 3 infer, 4 report.
Phase(op) ==
    CASE op \in {"exists_model", "exists_audio"} -> 1
      [] op \in {"load_model", "open_wav", "check_format", "decode", "collect"} -> 2
      [] op \in {"create_state", "full"} -> 3
      [] OTHER -> 4

\* Steps main executes once per process; the others run once per sample or
\* per segment.
OnceOps ==
    {"exists_model", "exists_audio", "load_model", "open_wav", "check_format",
     "collect", "create_state", "full", "create_file", "write_header",
     "n_segments", "write_time"}

Has(op) == \E k \in 1..Len(log) : log[k].op = op

HasOk(op) == \E k \in 1..Len(log) : log[k].op = op /\ log[k].ok

OkBefore(op, k) == \E j \in 1..(k - 1) : log[j].op = op /\ log[j].ok

Count(op) == Cardinality({k \in 1..Len(log) : log[k].op = op})

LastOp == IF log = <<>> THEN "none" ELSE log[Len(log)].op

IsPrefix(p, f) == Len(p) <= Len(f) /\ SubSeq(f, 1, Len(p)) = p

Occurrences(tok, f) == Cardinality({k \in 1..Len(f) : f[k] = tok})

\* The lines of a file: the text between line feeds; text after the last
\* line feed is a last, unterminated line.
RECURSIVE SplitLines(_, _, _)
SplitLines(f, k, cur) ==
    IF k > Len(f) THEN (IF cur = <<>> THEN <<>> ELSE <<cur>>)
    ELSE IF f[k] = NL THEN <<cur>> \o SplitLines(f, k + 1, <<>>)
    ELSE SplitLines(f, k + 1, Append(cur, f[k]))

Lines(f) == SplitLines(f, 1, <<>>)

HeaderText == <<"Transcription results:">>

TimeText(ms) == <<"Processing time: ">> \o FormatFixed(SecsOfMs(ms)) \o <<" sec">>

\* "[start s-end s] text" of a segment, without its line feed.
SegmentText(seg) ==
    <<"[">> \o FormatFixed(ToSeconds(seg.t0)) \o <<"s-">>
        \o FormatFixed(ToSeconds(seg.t1)) \o <<"s] ">> \o Trim(seg.text)

\* The segment texts of ss[1..n], each ended by a line feed.
RECURSIVE SegmentBlock(_, _)
SegmentBlock(ss, n) ==
    IF n = 0 THEN <<>> ELSE SegmentBlock(ss, n - 1) \o SegmentText(ss[n]) \o <<NL>>

RECURSIVE OneLineEach(_, _)
OneLineEach(ss, n) ==
    IF n = 0 THEN <<>> ELSE Append(OneLineEach(ss, n - 1), SegmentText(ss[n]))

NoLineBreaks(ss) ==
    \A k \in 1..Len(ss) : \A j \in 1..Len(Trim(ss[k].text)) : Trim(ss[k].text)[j] # NL

\* Some step of phase p or of a later phase was executed.
Reached(p) == \E k \in 1..Len(log) : Phase(log[k].op) >= p

LastIndex(tok, f) ==
    IF Occurrences(tok, f) = 0 THEN Len(f) + 1
    ELSE CHOOSE k \in 1..Len(f) : f[k] = tok /\ \A j \in (k + 1)..Len(f) : f[j] # tok

\* A report without its processing-time line.
Body(f) == SubSeq(f, 1, LastIndex("Processing time: ", f) - 1)

\* x * 32768 for a float x = m * 2^e with e >= -15.
Times32768(x) == x.m * Pow(2, x.e + 15)

IsDigit(c) == c \in {Digit(d) : d \in 0..9}

DigitValue(c) == CHOOSE d \in 0..9 : Digit(d) = c

RECURSIVE Number(_)
Number(ds) ==
    IF ds = <<>> THEN 0
    ELSE Number(SubSeq(ds, 1, Len(ds) - 1)) * 10 + DigitValue(ds[Len(ds)])

Unsigned(t) == IF t # <<>> /\ t[1] = "-" THEN Tail(t) ELSE t

\* A printed time has the shape d+ "." d d.
TwoDecimals(t) ==
    LET u == Unsigned(t)
        n == Len(u)
    IN  /\ n >= 4
        /\ u[n - 2] = "."
        /\ \A k \in 1..n : k # n - 2 => IsDigit(u[k])

\* The printed time in hundredths of a second.
Cents(t) ==
    LET u == Unsigned(t)
        n == Len(u)
        magnitude == Number(SubSeq(u, 1, n - 3)) * 100 + Number(SubSeq(u, n - 1, n))
    IN  IF t[1] = "-" THEN -magnitude ELSE magnitude

(***************************************************************************)
(* C1.  The four phases run in the order check, load, infer, report: a     *)
(* step of a phase is executed only if the step before it succeeded and    *)
(* belongs to the same or the preceding phase (so the steps of a phase     *)
(* come after all steps of the phases before it), a phase is reached only  *)
(* if every step of the phases before it succeeded, no step of main is     *)
(* executed twice, and a process that aborted executed nothing after the   *)
(* step that failed.                                                       *)
(***************************************************************************)
PhasesInOrder ==
    /\ \A k \in 2..Len(log) :
          /\ log[k - 1].ok
          /\ Phase(log[k].op) - Phase(log[k - 1].op) \in {0, 1}
    /\ log # <<>> => Phase(log[1].op) = 1
    /\ Reached(2) => HasOk("exists_model") /\ HasOk("exists_audio")
    /\ Reached(3) =>
          /\ HasOk("load_model") /\ HasOk("open_wav")
          /\ HasOk("check_format") /\ HasOk("collect")
          /\ Len(audio_data) = Len(audio.data.samples)
    /\ Reached(4) => HasOk("create_state") /\ HasOk("full")
    /\ \A op \in OnceOps : Count(op) <= 1
    /\ pc = "aborted" => ~log[Len(log)].ok

PhasesWitness ==
    /\ pc = "done"
    /\ Phase(LastOp) = 4
    /\ Count("decode") = 2
    /\ Count("seg_write") = 2

(***************************************************************************)
(* C2.  With the model file missing the process aborts at the first check: *)
(* the audio file is neither looked up, opened nor decoded, the model is   *)
(* not loaded and no inference is attempted, whether or not the audio file *)
(* exists.                                                                 *)
(***************************************************************************)
MissingModelStopsAll ==
    ~modelExists =>
        /\ \A k \in 1..Len(log) : log[k].op = "exists_model" /\ ~log[k].ok
        /\ pc \in {"check_model", "aborted"}
        /\ audio_data = <<>>

MissingModelWitness ==
    /\ ~modelExists
    /\ audio.exists
    /\ pc = "aborted"
    /\ exit = "nonzero"

(***************************************************************************)
(* C3.  With an audio file whose channel count is not 1 or whose sample    *)
(* rate is not 16000 the inference is never reached, no sample is decoded  *)
(* and the report file is neither created nor changed.                     *)
(***************************************************************************)
BadFormatStopsBeforeInference ==
    (audio.exists /\ (audio.data.channels # 1 \/ audio.data.rate # 16000)) =>
        /\ ~Has("decode") /\ ~Has("collect")
        /\ ~Has("create_state") /\ ~Has("full")
        /\ ~Has("create_file")
        /\ outFile = startFile
        /\ pc # "done"

BadFormatWitness ==
    /\ audio.exists
    /\ audio.data.channels = 1
    /\ audio.data.rate # 16000
    /\ LastOp = "check_format"
    /\ pc = "aborted"
    /\ ~startFile.exists
    /\ ~outFile.exists

(***************************************************************************)
(* C6.  Every error ends the process at once with a non-zero status: a     *)
(* failed step is the last step executed (nothing follows it, it is not    *)
(* retried), and the process exits 0 only if every step ran and none       *)
(* failed.                                                                 *)
(***************************************************************************)
FailFast ==
    /\ \A k \in 1..Len(log) :
          ~log[k].ok => k = Len(log) /\ pc = "aborted" /\ exit = "nonzero"
    /\ pc = "aborted" <=> exit = "nonzero"
    /\ pc = "aborted" => ~log[Len(log)].ok
    /\ pc = "done" <=> exit = "zero"
    /\ exit = "zero" =>
          /\ \A k \in 1..Len(log) : log[k].ok
          /\ \A op \in OnceOps : Count(op) = 1
          /\ modelExists /\ audio.exists
          /\ audio.data.channels = 1 /\ audio.data.rate = 16000
          /\ \A k \in 1..Len(audio.data.samples) : audio.data.samples[k].ok
          /\ Count("decode") = Len(audio.data.samples)
          /\ \A op \in {"seg_text", "seg_t0", "seg_t1", "seg_write"} :
                Count(op) = Len(segs)

FailFastWitness ==
    /\ pc = "aborted"
    /\ exit = "nonzero"
    /\ LastOp = "decode"
    /\ Len(audio_data) = 1
    /\ outFile = startFile

(***************************************************************************)
(* C10.  The report file is created or truncated only after the inference  *)
(* returned successfully: as long as this process has not created it, the  *)
(* file is what the process found at its start.                            *)
(***************************************************************************)
ReportOnlyAfterInference ==
    /\ ~HasOk("create_file") => outFile = startFile
    /\ \A k \in 1..Len(log) : log[k].op = "create_file" => OkBefore("full", k)

ReportOnlyAfterInferenceWitness ==
    /\ pc = "aborted"
    /\ LastOp = "full"
    /\ startFile.exists
    /\ outFile = startFile
    /\ run = 2
    /\ prevExit = "zero"

(***************************************************************************)
(* C4.  As claimed: after a successful run with n segments the lines of    *)
(* the report are the header, one line per segment in index order and the  *)
(* processing-time line, and no other line.                                *)
(***************************************************************************)
ReportLinesAsClaimed ==
    exit = "zero" =>
        Lines(outFile.data) =
            <<HeaderText>> \o OneLineEach(segs, Len(segs)) \o <<TimeText(elapsedMs)>>

(***************************************************************************)
(* C4, amended.  After a successful run with n segments the report is the  *)
(* header line, then for each segment 0..n-1 in index order its            *)
(* "[start s-end s] text" ended by a line feed, then one empty line, then  *)
(* the processing-time line, which is the last line, and nothing else.     *)
(* When no trimmed text holds a line break that is one line per segment.   *)
(***************************************************************************)
ReportLayout ==
    exit = "zero" =>
        /\ segs = transcript.segs
        /\ outFile.exists
        /\ outFile.data =
              HeaderText \o <<NL>> \o SegmentBlock(segs, Len(segs))
                  \o <<NL>> \o TimeText(elapsedMs) \o <<NL>>
        /\ LET L == Lines(outFile.data) IN
              /\ L[1] = HeaderText
              /\ L[Len(L) - 1] = <<>>
              /\ L[Len(L)] = TimeText(elapsedMs)
              /\ NoLineBreaks(segs) =>
                    L = <<HeaderText>> \o OneLineEach(segs, Len(segs))
                            \o << <<>>, TimeText(elapsedMs) >>

ReportLayoutWitness ==
    /\ exit = "zero"
    /\ Len(segs) = 2
    /\ NoLineBreaks(segs)
    /\ Len(Lines(outFile.data)) = 5

(***************************************************************************)
(* C5.  A second successful run on the same inputs, with the same engine   *)
(* output, leaves a report equal to the first run's report up to the       *)
(* processing-time line: the file is replaced, not extended, so it holds   *)
(* one header and one processing-time line.                                *)
(***************************************************************************)
OverwriteNotAppend ==
    (run >= 2 /\ prevExit = "zero" /\ exit = "zero") =>
        /\ Body(outFile.data) = Body(startFile.data)
        /\ Occurrences("Transcription results:", outFile.data) = 1
        /\ Occurrences("Processing time: ", outFile.data) = 1
        /\ Len(Lines(outFile.data)) = Len(Lines(startFile.data))

OverwriteWitness ==
    /\ run = 2
    /\ prevExit = "zero"
    /\ exit = "zero"
    /\ Len(segs) = 1
    /\ outFile # startFile

(***************************************************************************)
(* C7.  load_audio returns one float per source sample, in source order,   *)
(* each the sample divided by 32768: a value in [-1.0, 1.0), exactly -1.0  *)
(* for -32768 and 32767/32768 for 32767.                                   *)
(***************************************************************************)
SamplesNormalized ==
    /\ \A k \in 1..Len(audio_data) :
          LET x == audio_data[k]
              s == audio.data.samples[k]
          IN  /\ s.ok
              /\ x.e + 15 >= 0
              /\ Times32768(x) = s.v
              /\ -32768 <= Times32768(x) /\ Times32768(x) < 32768
              /\ s.v = -32768 => x = [m |-> -1, e |-> 0]
              /\ s.v = 32767 => x = [m |-> 32767, e |-> -15]
    /\ HasOk("collect") => Len(audio_data) = Len(audio.data.samples)

SamplesNormalizedWitness ==
    /\ pc = "create_state"
    /\ HasOk("collect")
    /\ audio.data.samples = <<Ok(-32768), Ok(32767)>>
    /\ Len(audio_data) = 2

TimesOrderedAsClaimed ==
    \A k \in 1..Len(written) :
        /\ TwoDecimals(written[k].start) /\ TwoDecimals(written[k].end)
        /\ Cents(written[k].start) >= 0
        /\ Cents(written[k].end) >= Cents(written[k].start)

(***************************************************************************)
(* C9, amended.  Every segment line written reports the engine's start and *)
(* end ticks of that segment divided by 100, with exactly two decimal      *)
(* places; the reported end is not before the reported start and both are  *)
(* non-negative whenever the engine's ticks satisfy 0 <= t0 <= t1, which   *)
(* the program does not check.                                             *)
(***************************************************************************)
TimesAreTicks ==
    /\ written # <<>> =>
          IsPrefix(HeaderText \o <<NL>> \o SegmentBlock(segs, Len(written)), outFile.data)
    /\ \A k \in 1..Len(written) :
        LET w == written[k]
            seg == segs[k]
        IN  /\ w.index = k - 1
            /\ TwoDecimals(w.start) /\ TwoDecimals(w.end)
            /\ Cents(w.start) = seg.t0
            /\ Cents(w.end) = seg.t1
            /\ (0 <= seg.t0 /\ seg.t0 <= seg.t1) =>
                  /\ w.start[1] # "-" /\ w.end[1] # "-"
                  /\ Cents(w.start) >= 0
                  /\ Cents(w.end) >= Cents(w.start)

TimesAreTicksWitness ==
    /\ Len(written) = 2
    /\ segs[1].t0 <= segs[1].t1 /\ segs[1].t0 >= 0
    /\ segs[2].t1 < segs[2].t0
    /\ pc = "write_time"

=============================================================================
